---------------------------- MODULE Spec2Model ----------------------------
(***************************************************************************)
(* A model of ctabustracker/bustracker.py: the CTABusTracker client.       *)
(*                                                                         *)
(* A client is constructed with its retry configuration, one of its public *)
(* accessors is called, _grab_url fetches the response (urlopen attempts   *)
(* separated by sleeps), and the accessor parses the response into plain   *)
(* dictionaries and lists, or raises.                                      *)
(*                                                                         *)
(* The transport is the environment: every urlopen call either returns a   *)
(* response document, raises URLError (HTTPError included, its subclass),  *)
(* or raises some other exception (socket.timeout, BadStatusLine, ...).    *)
(* The outcomes it has handed out are kept in `transport`, so that a       *)
(* second client run after the first one meets the same outcomes.          *)
(***************************************************************************)
EXTENDS Integers, Sequences, FiniteSets, TLC

VARIABLES self, pc, method, attempts_remaining, delay, log, response, result,
          transport

vars == <<self, pc, method, attempts_remaining, delay, log, response, result,
          transport>>

-----------------------------------------------------------------------------
(* Bounds of the model.                                                    *)

MaxAttempts == 3        \* retry_attempts ranges over 1..MaxAttempts
MaxVehicles == 2        \* vehicle elements in a getvehicles response
MaxStops == 2           \* stop elements in a getstops response
MaxPatterns == 2        \* ptr elements in a getpatterns response
MaxPts == 1             \* pt elements in a ptr
MaxPredictions == 2     \* prd elements in a getpredictions response
MaxBulletins == 1       \* sb elements in a getservicebulletins response
MaxSrvcChildren == 1    \* child nodes of a srvc element

RetryDelays == {1, 3}
RetryBackoffs == {1, 2}

-----------------------------------------------------------------------------
(* Python values.                                                          *)

\* Python's None.  No element text of the model is this string.
None == "<None>"

\* str(x): the text itself, and the four letters "None" for None.
PyStr(x) == IF x = None THEN "None" ELSE x

\* int(s) and int(float(s)) on the element texts of the model.
PyInt(s) ==
    CASE s = "90" -> 90
      [] s = "1500" -> 1500
      [] s = "12345.0" -> 12345

\* float(s) and datetime.strptime(s, fmt): the parsed value, tagged.
PyFloat(s) == <<"float", s>>
Strptime(s) == <<"datetime", s>>

Return(v) == [kind |-> "return", value |-> v, exc |-> ""]
Raise(e) == [kind |-> "raise", value |-> None, exc |-> e]
Pending == [kind |-> "pending", value |-> None, exc |-> ""]

-----------------------------------------------------------------------------
(* BeautifulStoneSoup.  An element is a function from the names of its     *)
(* children to their content: the text (.string) of a leaf child, the      *)
(* sequence of elements or nodes of a nested one.                          *)

\* tag.name: Tag.__getattr__ is find(name), the child or None; it never
\* raises for a name that does not start with two underscores.
Find(tag, name) == IF name \in DOMAIN tag THEN tag[name] ELSE None

\* hasattr(tag, name) on a Tag: __getattr__ returned (a child or None), so
\* the attribute exists.
HasAttrTag(tag, name) == TRUE

\* tag.a.string for each a of names raises AttributeError when tag.a is None.
Missing(tag, names) == \E a \in names : Find(tag, a) = None

\* All sequences over S of length at most n.
SeqUpTo(S, n) == UNION {[1..k -> S] : k \in 0..n}

-----------------------------------------------------------------------------
(* Upstream documents.  Texts that no claim distinguishes are fixed; the   *)
(* ids of sibling elements differ, as they do upstream.                    *)

VehicleIds == <<"1001", "1002", "1003">>
DlyTexts == {"true", "True", "1"}

VehicleBase(i) ==
    [vid |-> VehicleIds[i], tmstmp |-> "20100101 12:00", lat |-> "41.88",
     lon |-> "-87.63", hdg |-> "90", pid |-> "954", rt |-> "60",
     des |-> "Loop", pdist |-> "1500"]

\* The vehicle elements a response can hold at position i: without dly, with
\* a dly of some text, and one that lacks lat.
VehicleTags(i) ==
    {VehicleBase(i)}
    \cup {VehicleBase(i) @@ ("dly" :> d) : d \in DlyTexts}
    \cup {[a \in DOMAIN VehicleBase(i) \ {"lat"} |-> VehicleBase(i)[a]]}

\* Documents are sequences of at most n elements, the i-th drawn from
\* tagsAt[i].
DocsOf(tagsAt, n) ==
    UNION {{d \in [1..k -> UNION {tagsAt[i] : i \in 1..k}] :
               \A i \in 1..k : d[i] \in tagsAt[i]} : k \in 0..n}

VehicleDocs == DocsOf([i \in 1..MaxVehicles |-> VehicleTags(i)], MaxVehicles)

StopIds == <<"456", "457", "458">>

StopBase(i) ==
    [stpid |-> StopIds[i], stpnm |-> "Clark & Lake", lat |-> "41.88",
     lon |-> "-87.63"]

\* The stop elements a response can hold at position i: complete, or
\* without lat, lon or both ("Stops sometimes come back without proper
\* lat/lon attributes", line 241).
StopTags(i) ==
    {[a \in {"stpid", "stpnm"} \cup S |-> StopBase(i)[a]] :
        S \in SUBSET {"lat", "lon"}}

StopDocs == DocsOf([i \in 1..MaxStops |-> StopTags(i)], MaxStops)

SeqTexts == <<"1", "2", "3">>

\* The pt elements at position j of a ptr: a stop (typ S, with stpid and
\* stpnm) or a waypoint (typ W, without them).
PtTags(j) ==
    {[seq |-> SeqTexts[j], typ |-> "S", stpid |-> StopIds[j],
      stpnm |-> "Clark & Lake", lat |-> "41.88", lon |-> "-87.63"],
     [seq |-> SeqTexts[j], typ |-> "W", lat |-> "41.88", lon |-> "-87.63"]}

PatternIds == <<"954", "955", "956">>

PtrTags(i) ==
    {[pid |-> PatternIds[i], ln |-> "12345.0", rtdir |-> "East Bound",
      pt |-> pts] : pts \in DocsOf([j \in 1..MaxPts |-> PtTags(j)], MaxPts)}

PatternDocs == DocsOf([i \in 1..MaxPatterns |-> PtrTags(i)], MaxPatterns)

PrdBase(i) ==
    [tmstmp |-> "20100101 12:00", typ |-> "A", stpid |-> StopIds[i],
     stpnm |-> "Clark & Lake", dstp |-> "1500", vid |-> VehicleIds[i],
     rt |-> "60", rtdir |-> "East Bound", des |-> "Loop",
     prdtm |-> "20100101 12:10"]

\* The prd elements at position i: without dly or with a dly of some text.
PrdTags(i) == {PrdBase(i)} \cup {PrdBase(i) @@ ("dly" :> d) : d \in DlyTexts}

PredictionDocs ==
    DocsOf([i \in 1..MaxPredictions |-> PrdTags(i)], MaxPredictions)

\* The child nodes of a srvc element: text between the elements (a
\* NavigableString, which has no name), stpid, rt, and another element.
SrvcNodes ==
    {[name |-> None, string |-> "\n"],
     [name |-> "stpid", string |-> "456"],
     [name |-> "rt", string |-> "60"],
     [name |-> "rtdir", string |-> "East Bound"]}

SbBase ==
    [sbj |-> "Reroute", dtl |-> "Buses are rerouted.", brf |-> "Rerouted",
     prty |-> "High"]

\* The sb elements: without a srvc element, or with one of some children.
SbTags(i) ==
    {SbBase}
    \cup {SbBase @@ ("srvc" :> ch) : ch \in SeqUpTo(SrvcNodes, MaxSrvcChildren)}

BulletinDocs == DocsOf([i \in 1..MaxBulletins |-> SbTags(i)], MaxBulletins)

PredictionMethods ==
    {"get_vehicle_predictions", "get_route_predictions", "get_stop_predictions"}
BulletinMethods == {"get_route_service_bulletins", "get_stop_service_bulletins"}

Methods ==
    {"get_vehicle", "get_route_vehicles", "get_route_stops", "get_pattern",
     "get_route_patterns"} \cup PredictionMethods \cup BulletinMethods

\* The documents upstream answers a method's request with.
Docs(m) ==
    CASE m \in {"get_vehicle", "get_route_vehicles"} -> VehicleDocs
      [] m = "get_route_stops" -> StopDocs
      [] m \in {"get_pattern", "get_route_patterns"} -> PatternDocs
      [] m \in PredictionMethods -> PredictionDocs
      [] m \in BulletinMethods -> BulletinDocs

-----------------------------------------------------------------------------
(* __init__ (lines 50-55).                                                 *)

Config ==
    [retry_urls : BOOLEAN, retry_attempts : 1..MaxAttempts,
     retry_delay : RetryDelays, retry_backoff : RetryBackoffs]

-----------------------------------------------------------------------------
(* _grab_url (lines 71-91).                                                *)

\* Faulty variants of the loop condition: one attempt too many, and a loop
\* that retries only when retry_urls is set.
RetryLoopOffByOne(s, remaining) == remaining > 0
RetryLoopGated(s, remaining) == s.retry_urls /\ remaining > 1

\* while attempts_remaining > 1 (line 81)
RetryLoop(s, remaining) == remaining > 1

\* Faulty variant: a bare except.
CaughtAny(exc) == TRUE

\* except URLError (line 84)
Caught(exc) == exc = "URLError"

\* Faulty variant: the delay grows by addition.
NextDelayAdded(s, d) == d + s.retry_backoff

\* delay *= self.retry_backoff (line 88)
NextDelay(s, d) == d * s.retry_backoff

OkOutcome(doc) == [kind |-> "ok", body |-> doc]
ErrOutcome(e) == [kind |-> e, body |-> <<>>]
Outcomes(m) ==
    {OkOutcome(doc) : doc \in Docs(m)}
    \cup {ErrOutcome("URLError"), ErrOutcome("OtherError")}

UrlopenEvent(k) == [ev |-> "urlopen", out |-> k, secs |-> 0]
SleepEvent(d) == [ev |-> "sleep", out |-> "", secs |-> d]

\* The urlopen calls a client has made.
Attempts(c) == Cardinality({i \in 1..Len(log[c]) : log[c][i].ev = "urlopen"})

Clients == DOMAIN self

\* The calls are synchronous: a client is called when the earlier ones are
\* done.
Turn(c) == \A d \in Clients : d < c => pc[d] = "done"

\* A public accessor is called: it builds its url and enters _grab_url
\* (lines 78-79).  A later client repeats the request of the first.
Call(c, m) ==
    /\ pc[c] = "idle"
    /\ Turn(c)
    /\ \A d \in Clients : method[d] # "" => m = method[d]
    /\ method' = [method EXCEPT ![c] = m]
    /\ attempts_remaining' =
          [attempts_remaining EXCEPT ![c] = self[c].retry_attempts]
    /\ delay' = [delay EXCEPT ![c] = self[c].retry_delay]
    /\ pc' = [pc EXCEPT ![c] = "urlopen"]
    /\ UNCHANGED <<self, log, response, result, transport>>

\* What urlopen(url, timeout=5) did for client c (lines 83-84 and 91).
Urlopened(c, o) ==
    /\ log' = [log EXCEPT ![c] = Append(@, UrlopenEvent(o.kind))]
    /\ IF o.kind = "ok"
       THEN /\ response' = [response EXCEPT ![c] = o.body]
            /\ pc' = [pc EXCEPT ![c] = "parse"]
            /\ UNCHANGED result
       ELSE IF RetryLoop(self[c], attempts_remaining[c]) /\ Caught(o.kind)
       THEN /\ pc' = [pc EXCEPT ![c] = "sleep"]
            /\ UNCHANGED <<response, result>>
       ELSE /\ result' = [result EXCEPT ![c] = Raise(o.kind)]
            /\ pc' = [pc EXCEPT ![c] = "done"]
            /\ UNCHANGED response
    /\ UNCHANGED <<self, method, attempts_remaining, delay>>

\* One urlopen call: in the loop (line 83) while RetryLoop holds, the final
\* one (line 91) otherwise.  The k-th call of a run meets the k-th outcome of
\* the transport.
UrlOpen(c) ==
    /\ pc[c] = "urlopen"
    /\ LET k == Attempts(c) + 1 IN
         IF k <= Len(transport)
         THEN /\ Urlopened(c, transport[k])
              /\ UNCHANGED transport
         ELSE \E o \in Outcomes(method[c]) :
                 /\ Urlopened(c, o)
                 /\ transport' = Append(transport, o)

\* The except clause (lines 86-88).
Sleep(c) ==
    /\ pc[c] = "sleep"
    /\ log' = [log EXCEPT ![c] = Append(@, SleepEvent(delay[c]))]
    /\ attempts_remaining' = [attempts_remaining EXCEPT ![c] = @ - 1]
    /\ delay' = [delay EXCEPT ![c] = NextDelay(self[c], @)]
    /\ pc' = [pc EXCEPT ![c] = "urlopen"]
    /\ UNCHANGED <<self, method, response, result, transport>>

-----------------------------------------------------------------------------
(* get_vehicle (lines 108-142) and get_route_vehicles (lines 144-176).     *)

VehicleFields ==
    {"vid", "tmstmp", "lat", "lon", "hdg", "pid", "rt", "des", "pdist"}

\* Faulty variant: a comparison that ignores case.
DelayedAnyCase(tag) == Find(tag, "dly") \in {"true", "True"}

\* if hasattr(tag.dly, 'string') and tag.dly.string == 'true'
\* (lines 137 and 171): None has no attribute string, a Tag has.
Delayed(tag) == Find(tag, "dly") # None /\ Find(tag, "dly") = "true"

\* The dictionary built at lines 125-140 and 159-174.
Vehicle(tag) ==
    [id |-> PyStr(tag.vid),
     last_update |-> Strptime(tag.tmstmp),
     latitude |-> PyStr(tag.lat),
     longitude |-> PyStr(tag.lon),
     heading |-> PyInt(tag.hdg),
     pattern_id |-> PyStr(tag.pid),
     route_id |-> PyStr(tag.rt),
     destination |-> PyStr(tag.des),
     distance_into_route |-> PyFloat(tag.pdist),
     delayed |-> Delayed(tag)]

\* Faulty variant: two vehicles pass.
MultipleVehiclesOffByOne(tags) == Len(tags) > 2

\* if len(vehicle_tags) > 1 (line 121)
MultipleVehicles(tags) == Len(tags) > 1

GetVehicle(soup) ==
    IF MultipleVehicles(soup) THEN Raise("Exception")
    ELSE IF Len(soup) = 0 THEN Raise("IndexError")
    ELSE IF Missing(soup[1], VehicleFields) THEN Raise("AttributeError")
    ELSE Return(Vehicle(soup[1]))

\* The last index of keys that holds k: a later assignment to the same
\* key of a dictionary replaces the earlier one.
LastWith(keys, k) ==
    CHOOSE i \in 1..Len(keys) :
        /\ keys[i] = k
        /\ \A j \in (i + 1)..Len(keys) : keys[j] # k

VehicleKey(tag) == PyStr(tag.vid)

GetRouteVehicles(soup) ==
    IF \E i \in 1..Len(soup) : Missing(soup[i], VehicleFields)
    THEN Raise("AttributeError")
    ELSE LET keys == [i \in 1..Len(soup) |-> VehicleKey(soup[i])] IN
         Return([k \in {keys[i] : i \in 1..Len(soup)} |->
                    Vehicle(soup[LastWith(keys, k)])])

\* The accessor's work after _grab_url returned.
Parsed(c, r) ==
    /\ pc[c] = "parse"
    /\ result' = [result EXCEPT ![c] = r]
    /\ pc' = [pc EXCEPT ![c] = "done"]
    /\ UNCHANGED <<self, method, attempts_remaining, delay, log, response,
                   transport>>

get_vehicle(c) ==
    /\ method[c] = "get_vehicle"
    /\ Parsed(c, GetVehicle(response[c]))

get_route_vehicles(c) ==
    /\ method[c] = "get_route_vehicles"
    /\ Parsed(c, GetRouteVehicles(response[c]))

-----------------------------------------------------------------------------
(* get_route_stops (lines 218-244).                                        *)

StopFields == {"stpid", "stpnm", "lat", "lon"}

\* The dictionary built at lines 234-239.
Stop(tag) ==
    [id |-> PyStr(Find(tag, "stpid")),
     name |-> PyStr(Find(tag, "stpnm")),
     latitude |-> PyStr(Find(tag, "lat")),
     longitude |-> PyStr(Find(tag, "lon"))]

\* Faulty variant: break in place of continue, the loop ends at the first
\* malformed stop.
RECURSIVE StoredUntilMalformed(_)
StoredUntilMalformed(tags) ==
    IF tags = <<>> \/ Missing(Head(tags), {"stpid", "stpnm", "lat", "lon"})
    THEN <<>>
    ELSE <<Head(tags)>> \o StoredUntilMalformed(Tail(tags))

\* try ... except AttributeError: continue (lines 233-242): the tags whose
\* dictionary is built and stored; the others are passed over.
StoredStops(tags) == SelectSeq(tags, LAMBDA t : ~Missing(t, StopFields))

StopKey(tag) == PyStr(Find(tag, "stpid"))

GetRouteStops(soup) ==
    LET kept == StoredStops(soup)
        keys == [i \in 1..Len(kept) |-> StopKey(kept[i])]
    IN  Return([k \in {keys[i] : i \in 1..Len(kept)} |->
                   Stop(kept[LastWith(keys, k)])])

get_route_stops(c) ==
    /\ method[c] = "get_route_stops"
    /\ Parsed(c, GetRouteStops(response[c]))

-----------------------------------------------------------------------------
(* get_pattern (lines 246-286) and get_route_patterns (lines 288-325).     *)

PatternFields == {"pid", "ln", "rtdir"}
PtFields == {"seq", "typ", "lat", "lon"}

\* if pt.type == 'S' (lines 279 and 318): pt.type is find('type').
IsStopPoint(pt) == Find(pt, "type") = "S"

\* The dictionary built at lines 272-284 and 311-323.
PathPoint(pt) ==
    [id |-> PyStr(pt.seq),
     type |-> PyStr(pt.typ),
     latitude |-> PyStr(pt.lat),
     longitude |-> PyStr(pt.lon),
     stop_id |-> IF IsStopPoint(pt) THEN PyStr(Find(pt, "stpid")) ELSE None,
     stop_name |-> IF IsStopPoint(pt) THEN PyStr(Find(pt, "stpnm")) ELSE None]

PtKey(pt) == PyStr(pt.seq)

MalformedPattern(tag) ==
    \/ Missing(tag, PatternFields)
    \/ \E j \in 1..Len(tag.pt) : Missing(tag.pt[j], PtFields)

\* The dictionary built at lines 264-284 and 303-323.
Pattern(tag) ==
    LET keys == [j \in 1..Len(tag.pt) |-> PtKey(tag.pt[j])] IN
    [id |-> PyStr(tag.pid),
     length |-> PyInt(tag.ln),
     route_direction |-> PyStr(tag.rtdir),
     path |-> [k \in {keys[j] : j \in 1..Len(tag.pt)} |->
                  PathPoint(tag.pt[LastWith(keys, k)])]]

\* if len(pattern_tags) > 1 (line 259)
MultiplePatterns(tags) == Len(tags) > 1

GetPattern(soup) ==
    IF MultiplePatterns(soup) THEN Raise("Exception")
    ELSE IF Len(soup) = 0 THEN Raise("IndexError")
    ELSE IF MalformedPattern(soup[1]) THEN Raise("AttributeError")
    ELSE Return(Pattern(soup[1]))

PatternKey(tag) == PyStr(tag.pid)

GetRoutePatterns(soup) ==
    IF \E i \in 1..Len(soup) : MalformedPattern(soup[i])
    THEN Raise("AttributeError")
    ELSE LET keys == [i \in 1..Len(soup) |-> PatternKey(soup[i])] IN
         Return([k \in {keys[i] : i \in 1..Len(soup)} |->
                    Pattern(soup[LastWith(keys, k)])])

get_pattern(c) ==
    /\ method[c] = "get_pattern"
    /\ Parsed(c, GetPattern(response[c]))

get_route_patterns(c) ==
    /\ method[c] = "get_route_patterns"
    /\ Parsed(c, GetRoutePatterns(response[c]))

-----------------------------------------------------------------------------
(* _parse_predictions (lines 357-387) and its three callers.               *)

PrdFields ==
    {"tmstmp", "typ", "stpid", "stpnm", "dstp", "vid", "rt", "rtdir", "des",
     "prdtm"}

\* p.dly (line 380), p being the dictionary built at line 367: the keys of
\* a dict are not attributes, and dly is no attribute of dict.
DictGetAttr(p, name) == Raise("AttributeError")

\* One pass of the loop body (lines 367-385): the dictionary appended.
Prediction(tag) ==
    IF Missing(tag, PrdFields) THEN Raise("AttributeError")
    ELSE LET p == [last_update |-> Strptime(tag.tmstmp),
                   type |-> PyStr(tag.typ),
                   stop_id |-> PyStr(tag.stpid),
                   stop_name |-> PyStr(tag.stpnm),
                   distance_to_destination |-> PyInt(tag.dstp),
                   vehicle_id |-> PyStr(tag.vid),
                   route_id |-> PyStr(tag.rt),
                   direction |-> PyStr(tag.rtdir),
                   destination |-> PyStr(tag.des),
                   prediction |-> Strptime(tag.prdtm)]
             dly == DictGetAttr(p, "dly")
         IN  IF dly.kind = "raise" THEN dly
             ELSE Return(p @@ ("delay" :>
                                (dly.value # None /\ dly.value = "true")))

ParsePredictions(soup) ==
    IF \E i \in 1..Len(soup) : Prediction(soup[i]).kind = "raise"
    THEN Prediction(soup[CHOOSE i \in 1..Len(soup) :
                              /\ Prediction(soup[i]).kind = "raise"
                              /\ \A j \in 1..(i - 1) :
                                    Prediction(soup[j]).kind # "raise"])
    ELSE Return([i \in 1..Len(soup) |-> Prediction(soup[i]).value])

get_vehicle_predictions(c) ==
    /\ method[c] = "get_vehicle_predictions"
    /\ Parsed(c, ParsePredictions(response[c]))

get_route_predictions(c) ==
    /\ method[c] = "get_route_predictions"
    /\ Parsed(c, ParsePredictions(response[c]))

get_stop_predictions(c) ==
    /\ method[c] = "get_stop_predictions"
    /\ Parsed(c, ParsePredictions(response[c]))

-----------------------------------------------------------------------------
(* _parse_service_bulletins (lines 412-444) and its two callers.           *)

SbFields == {"sbj", "dtl", "brf", "prty"}

\* if not hasattr(elem, 'name'): continue (lines 434-435)
HasName(elem) == elem.name # None

\* The loop over tag.srvc (lines 432-440).
Affects(srvc) ==
    LET kept == SelectSeq(srvc, LAMBDA e :
                                    HasName(e) /\ e.name \in {"stpid", "rt"})
    IN  [i \in 1..Len(kept) |->
            <<IF kept[i].name = "stpid" THEN "stop" ELSE "route",
              PyStr(kept[i].string)>>]

\* One pass of the loop body (lines 423-442).  tag.srvc is find('srvc'):
\* None when the sb has no srvc, and a for loop over None raises TypeError.
Bulletin(tag) ==
    IF Missing(tag, SbFields) THEN Raise("AttributeError")
    ELSE IF HasAttrTag(tag, "srvc") /\ "srvc" \notin DOMAIN tag
    THEN Raise("TypeError")
    ELSE Return([title |-> PyStr(tag.sbj),
                 details_full |-> PyStr(tag.dtl),
                 details_short |-> PyStr(tag.brf),
                 priority |-> PyStr(tag.prty),
                 affects |-> IF HasAttrTag(tag, "srvc")
                             THEN Affects(tag.srvc) ELSE <<>>])

ParseServiceBulletins(soup) ==
    IF \E i \in 1..Len(soup) : Bulletin(soup[i]).kind = "raise"
    THEN Bulletin(soup[CHOOSE i \in 1..Len(soup) :
                            /\ Bulletin(soup[i]).kind = "raise"
                            /\ \A j \in 1..(i - 1) :
                                  Bulletin(soup[j]).kind # "raise"])
    ELSE Return([i \in 1..Len(soup) |-> Bulletin(soup[i]).value])

get_route_service_bulletins(c) ==
    /\ method[c] = "get_route_service_bulletins"
    /\ Parsed(c, ParseServiceBulletins(response[c]))

get_stop_service_bulletins(c) ==
    /\ method[c] = "get_stop_service_bulletins"
    /\ Parsed(c, ParseServiceBulletins(response[c]))

-----------------------------------------------------------------------------
(* Specifications.                                                         *)

InitClients(S) ==
    /\ self \in [S -> Config]
    /\ pc = [c \in S |-> "idle"]
    /\ method = [c \in S |-> ""]
    /\ attempts_remaining = [c \in S |-> 0]
    /\ delay = [c \in S |-> 0]
    /\ log = [c \in S |-> <<>>]
    /\ response = [c \in S |-> <<>>]
    /\ result = [c \in S |-> Pending]
    /\ transport = <<>>

\* One client.
Init == InitClients({1})

\* Two clients that differ only in retry_urls; the second is run after the
\* first against the same transport outcomes.
PairInit ==
    /\ InitClients({1, 2})
    /\ self[1].retry_urls /\ ~self[2].retry_urls
    /\ [self[1] EXCEPT !.retry_urls = FALSE] = self[2]

Next ==
    \/ \E c \in Clients, m \in Methods : Call(c, m)
    \/ \E c \in Clients : UrlOpen(c)
    \/ \E c \in Clients : Sleep(c)
    \/ \E c \in Clients : get_vehicle(c)
    \/ \E c \in Clients : get_route_vehicles(c)
    \/ \E c \in Clients : get_route_stops(c)
    \/ \E c \in Clients : get_pattern(c)
    \/ \E c \in Clients : get_route_patterns(c)
    \/ \E c \in Clients : get_vehicle_predictions(c)
    \/ \E c \in Clients : get_route_predictions(c)
    \/ \E c \in Clients : get_stop_predictions(c)
    \/ \E c \in Clients : get_route_service_bulletins(c)
    \/ \E c \in Clients : get_stop_service_bulletins(c)

Spec == Init /\ [][Next]_vars

PairSpec == PairInit /\ [][Next]_vars

-----------------------------------------------------------------------------
(* Properties.                                                             *)

\* _grab_url of client c has returned or raised.
GrabDone(c) == pc[c] \in {"parse", "done"}

\* _grab_url of client c has returned a response.
Fetched(c) ==
    GrabDone(c) /\ \E i \in 1..Len(log[c]) : log[c][i] = UrlopenEvent("ok")

\* The accessor of client c has returned or raised after a successful fetch.
Finished(c) == pc[c] = "done" /\ Fetched(c)

RECURSIVE Pow(_, _)
Pow(b, k) == IF k = 0 THEN 1 ELSE b * Pow(b, k - 1)

\* The transport failed with URLError on the first retry_attempts - 1 calls
\* and succeeded on the next.
FailsThenSucceeds(c) ==
    LET n == self[c].retry_attempts IN
    /\ Len(transport) >= n
    /\ \A k \in 1..(n - 1) : transport[k].kind = "URLError"
    /\ transport[n].kind = "ok"

\* C1: when the transport fails with URLError on the first
\* retry_attempts - 1 calls and succeeds on the retry_attempts-th, _grab_url
\* returns that response, and its history is attempt k, then a sleep of
\* retry_delay * retry_backoff^(k-1), for k = 1..retry_attempts - 1, then the
\* successful attempt with no sleep after it.
C1_BackoffSchedule ==
    \A c \in Clients :
        (GrabDone(c) /\ FailsThenSucceeds(c)) =>
            LET n == self[c].retry_attempts IN
            /\ Fetched(c)
            /\ response[c] = transport[n].body
            /\ Len(log[c]) = 2 * n - 1
            /\ \A k \in 1..(n - 1) :
                  /\ log[c][2 * k - 1] = UrlopenEvent("URLError")
                  /\ log[c][2 * k] =
                        SleepEvent(self[c].retry_delay
                                     * Pow(self[c].retry_backoff, k - 1))
            /\ log[c][2 * n - 1] = UrlopenEvent("ok")

\* attempts=3, delay=3, backoff=2: two failures, waits of 3 then 6, success.
C1_Witness ==
    \E c \in Clients :
        /\ GrabDone(c) /\ FailsThenSucceeds(c)
        /\ self[c].retry_attempts = 3
        /\ self[c].retry_delay = 3
        /\ self[c].retry_backoff = 2
        /\ Len(log[c]) = 5
        /\ log[c][2] = SleepEvent(3)
        /\ log[c][4] = SleepEvent(6)

\* Every urlopen call client c has made raised URLError.
AllFailed(c) ==
    \A i \in 1..Len(log[c]) :
        log[c][i].ev = "urlopen" => log[c][i].out = "URLError"

\* C2: _grab_url never makes more than retry_attempts urlopen calls; while
\* it runs it can always take its next step, and its history is bounded, so
\* it terminates; and when every call raised URLError it ends having made
\* exactly retry_attempts calls, with URLError raised to the caller.
C2_ExactAttempts ==
    \A c \in Clients :
        /\ Attempts(c) <= self[c].retry_attempts
        /\ Len(log[c]) <= 2 * self[c].retry_attempts - 1
        /\ pc[c] \in {"urlopen", "sleep"} => ENABLED (UrlOpen(c) \/ Sleep(c))
        /\ (GrabDone(c) /\ AllFailed(c)) =>
              /\ Attempts(c) = self[c].retry_attempts
              /\ pc[c] = "done"
              /\ result[c] = Raise("URLError")

C2_Witness ==
    \E c \in Clients :
        /\ GrabDone(c) /\ AllFailed(c)
        /\ self[c].retry_attempts = 3
        /\ Attempts(c) = 3
        /\ result[c] = Raise("URLError")

\* What the claim says of a dly element: present with the text "true".
DlyIsTrue(tag) == "dly" \in DOMAIN tag /\ tag["dly"] = "true"

\* C3: each of the three prediction accessors returns, for a fetched
\* response of n >= 0 well-formed prd entries, a list of n records whose
\* delay is true exactly when the entry has a dly of "true".
C3_PredictionDelay ==
    \A c \in Clients :
        (Finished(c) /\ method[c] \in PredictionMethods) =>
            /\ result[c].kind = "return"
            /\ Len(result[c].value) = Len(response[c])
            /\ \A i \in 1..Len(response[c]) :
                  result[c].value[i].delay = DlyIsTrue(response[c][i])

\* The path points of a returned pattern dictionary agree with the claim.
PathAsClaimed(tag, pattern) ==
    \A j \in 1..Len(tag.pt) :
        LET pt == tag.pt[j]
            point == pattern.path[pt.seq]
        IN  /\ pt.typ = "S" =>
                 /\ point.stop_id = pt.stpid
                 /\ point.stop_name = pt.stpnm
            /\ pt.typ = "W" =>
                 /\ point.stop_id = None
                 /\ point.stop_name = None

\* C4: in the paths built by get_pattern and get_route_patterns, a point of
\* typ S has stop_id and stop_name taken from stpid and stpnm, and a
\* point of typ W has both None.
C4_StopPointsPopulated ==
    \A c \in Clients :
        (Finished(c) /\ result[c].kind = "return") =>
            /\ method[c] = "get_pattern" =>
                  PathAsClaimed(response[c][1], result[c].value)
            /\ method[c] = "get_route_patterns" =>
                  \A i \in 1..Len(response[c]) :
                      PathAsClaimed(response[c][i],
                                    result[c].value[response[c][i].pid])

\* The affects list the claim describes, child by child.
RECURSIVE AffectsAsClaimed(_)
AffectsAsClaimed(nodes) ==
    IF nodes = <<>> THEN <<>>
    ELSE (CASE Head(nodes).name = "stpid" -> <<(<<"stop", Head(nodes).string>>)>>
            [] Head(nodes).name = "rt" -> <<(<<"route", Head(nodes).string>>)>>
            [] OTHER -> <<>>)
         \o AffectsAsClaimed(Tail(nodes))

\* C5: every bulletin parsed by _parse_service_bulletins has as affects the
\* pairs ("stop", id) and ("route", id) of the stpid and rt children of its
\* srvc, in document order, other children ignored; a bulletin without srvc
\* has an empty affects list, and the call does not fail.
C5_Affects ==
    \A c \in Clients :
        (Finished(c) /\ method[c] \in BulletinMethods) =>
            /\ result[c].kind = "return"
            /\ Len(result[c].value) = Len(response[c])
            /\ \A i \in 1..Len(response[c]) :
                  result[c].value[i].affects =
                      IF "srvc" \in DOMAIN response[c][i]
                      THEN AffectsAsClaimed(response[c][i]["srvc"])
                      ELSE <<>>

\* C6: get_route_stops does not fail, and the keys of the mapping it returns
\* are exactly the ids of the stop entries that have all their sub-elements;
\* no record of the mapping is a partial one.
C6_MalformedStopsSkipped ==
    \A c \in Clients :
        (Finished(c) /\ method[c] = "get_route_stops") =>
            /\ result[c].kind = "return"
            /\ DOMAIN result[c].value =
                  {response[c][i]["stpid"] :
                      i \in {j \in 1..Len(response[c]) :
                                StopFields \subseteq DOMAIN response[c][j]}}
            /\ \A k \in DOMAIN result[c].value :
                  /\ result[c].value[k].id = k
                  /\ result[c].value[k].latitude # "None"
                  /\ result[c].value[k].longitude # "None"

\* A stop without lat ahead of a complete one: only the second is returned.
C6_Witness ==
    \E c \in Clients :
        /\ Finished(c) /\ method[c] = "get_route_stops"
        /\ Len(response[c]) = 2
        /\ "lat" \notin DOMAIN response[c][1]
        /\ StopFields \subseteq DOMAIN response[c][2]
        /\ DOMAIN result[c].value = {response[c][2]["stpid"]}

\* C7: get_vehicle on a response of more than one vehicle, and get_pattern
\* on a response of more than one ptr, raise the ambiguous-entity error,
\* return no record, and make no urlopen call after the one that fetched
\* the response.
C7_AmbiguousFatal ==
    \A c \in Clients :
        (/\ Finished(c)
         /\ method[c] \in {"get_vehicle", "get_pattern"}
         /\ Len(response[c]) > 1) =>
            /\ result[c] = Raise("Exception")
            /\ log[c][Len(log[c])] = UrlopenEvent("ok")
            /\ ~ENABLED (UrlOpen(c) \/ Sleep(c))

\* Two vehicles fetched at the second attempt; the call failed.
C7_Witness ==
    \E c \in Clients :
        /\ Finished(c)
        /\ method[c] = "get_vehicle"
        /\ Len(response[c]) = 2
        /\ Attempts(c) = 2
        /\ result[c].kind = "raise"

\* C8: a vehicle record of get_vehicle and of get_route_vehicles has
\* delayed true exactly when the vehicle has a dly of text "true"; no dly, or
\* a dly of any other text, gives false, and no error.
C8_DelayedFlag ==
    \A c \in Clients :
        (/\ Finished(c)
         /\ \A i \in 1..Len(response[c]) :
               VehicleFields \subseteq DOMAIN response[c][i]) =>
            /\ (method[c] = "get_vehicle" /\ Len(response[c]) = 1) =>
                  /\ result[c].kind = "return"
                  /\ result[c].value.delayed = DlyIsTrue(response[c][1])
            /\ method[c] = "get_route_vehicles" =>
                  /\ result[c].kind = "return"
                  /\ \A i \in 1..Len(response[c]) :
                        result[c].value[response[c][i]["vid"]].delayed =
                            DlyIsTrue(response[c][i])

\* A route with a vehicle whose dly is "True" and one whose dly is "true".
C8_Witness ==
    \E c \in Clients :
        /\ Finished(c) /\ method[c] = "get_route_vehicles"
        /\ Len(response[c]) = 2
        /\ Find(response[c][1], "dly") = "True"
        /\ Find(response[c][2], "dly") = "true"
        /\ result[c].kind = "return"
        /\ ~result[c].value[response[c][1]["vid"]].delayed
        /\ result[c].value[response[c][2]["vid"]].delayed

\* What _grab_url gave its caller: the response, or the exception.
GrabReturned(c) == log[c][Len(log[c])] = UrlopenEvent("ok")

\* C9: two clients that differ only in retry_urls, run against the same
\* transport outcomes, make the same urlopen calls, sleep the same waits and
\* end with the same response or the same error.
C9_RetryUrlsIgnored ==
    (Clients = {1, 2} /\ \A c \in Clients : pc[c] = "done") =>
        /\ log[1] = log[2]
        /\ GrabReturned(1) = GrabReturned(2)
        /\ GrabReturned(1) => response[1] = response[2]
        /\ ~GrabReturned(1) => result[1] = result[2]

\* Both clients retried twice; one has retry_urls set, the other has not.
C9_Witness ==
    /\ Clients = {1, 2}
    /\ \A c \in Clients : pc[c] = "done"
    /\ self[1].retry_urls /\ ~self[2].retry_urls
    /\ \A c \in Clients : Attempts(c) = 3 /\ log[c][2].ev = "sleep"

\* C10: an exception of urlopen that is not a URLError is the last event of
\* _grab_url, on any attempt: no sleep and no urlopen call follows it, and
\* it is raised to the caller.
C10_OtherErrorsPropagate ==
    \A c \in Clients :
        \A i \in 1..Len(log[c]) :
            (log[c][i].ev = "urlopen" /\ log[c][i].out \notin {"ok", "URLError"}) =>
                /\ i = Len(log[c])
                /\ pc[c] = "done"
                /\ result[c] = Raise(log[c][i].out)
                /\ ~ENABLED (UrlOpen(c) \/ Sleep(c))

\* Another exception on the first of three attempts: two attempts remained.
C10_Witness ==
    \E c \in Clients :
        /\ self[c].retry_attempts = 3
        /\ attempts_remaining[c] = 3
        /\ log[c] = <<UrlopenEvent("OtherError")>>
        /\ pc[c] = "done"

=============================================================================
